---- MODULE Spec2Model ----
(***************************************************************************)
(* Model of agent.py: the job entrypoint of a LiveKit voice agent          *)
(* (connect, room egress, job metadata, outbound SIP dial, agent session,  *)
(* greeting) and the Assistant.get_weather tool.                           *)
(*                                                                         *)
(* Every await of an external service is two steps: the request is issued  *)
(* and the coroutine suspends, then the service's answer (a value or an    *)
(* exception) resumes it.  The answers are chosen by the environment.      *)
(***************************************************************************)
EXTENDS Integers, Sequences, FiniteSets, TLC

(***************************************************************************)
(* Python values.                                                          *)
(***************************************************************************)
\* None and str, the two types a phone_number of the job metadata takes.
PyNone == [isNone |-> TRUE, s |-> ""]
PyStr(x) == [isNone |-> FALSE, s |-> x]

\* Truthy as "is not None".
Truthy_NotNone(v) == ~v.isNone

\* Python truth value of None / str: None and "" are false.
Truthy(v) == ~v.isNone /\ v.s # ""

\* The phone numbers of the modelled jobs.
PhoneNumbers == {"+15550100", "+15550199"}

\* A decoded JSON document, as far as entrypoint looks at it: its type and,
\* for an object, whether it has the key "phone_number" and the value there.
JsonOther(kind) == [k |-> kind, hasPn |-> FALSE, pn |-> PyNone]
JsonObj(has, v) == [k |-> "obj", hasPn |-> has, pn |-> v]

\* ctx.job.metadata: None, or a text.  A text is described by what json.loads
\* does with it: whether it is empty, whether it is valid JSON, and the
\* document it decodes to.
MdNone == [isNone |-> TRUE, empty |-> TRUE, valid |-> FALSE, doc |-> JsonOther("null")]
MdText(isEmpty, isValid, d) == [isNone |-> FALSE, empty |-> isEmpty, valid |-> isValid, doc |-> d]

MdEmpty == MdText(TRUE, FALSE, JsonOther("null"))
MdBadJson == MdText(FALSE, FALSE, JsonOther("null"))
MdNonObject == {MdText(FALSE, TRUE, JsonOther(kind)) : kind \in {"null", "num", "str", "arr"}}
MdObjectNoField == MdText(FALSE, TRUE, JsonObj(FALSE, PyNone))
MdObjectNull == MdText(FALSE, TRUE, JsonObj(TRUE, PyNone))
MdObjectEmptyStr == MdText(FALSE, TRUE, JsonObj(TRUE, PyStr("")))
MdObjectPhone == {MdText(FALSE, TRUE, JsonObj(TRUE, PyStr(p))) : p \in PhoneNumbers}

Metadatas ==
    {MdNone, MdEmpty, MdBadJson, MdObjectNoField, MdObjectNull, MdObjectEmptyStr}
        \cup MdNonObject \cup MdObjectPhone

\* The room of the job.
RoomName == "room-1"

(***************************************************************************)
(* The weather provider's answers                                          *)
(***************************************************************************)
\* The values of OPENWEATHER_API_KEY: unset, set to "", set to a key.
ApiKeys == {PyNone, PyStr(""), PyStr("key-1")}

Locations == {"Paris", "San Francisco, CA"}

\* The HTTP statuses of the modelled responses.
Statuses == {200, 201, 404, 500}

\* A JSON number as written in the body: sign, integer digits, and the digits
\* after the point (<<>> for a number written without a point).
JsonNumber(isNeg, w, f) == [neg |-> isNeg, whole |-> w, frac |-> f]

Temps ==
    {JsonNumber(FALSE, 21, <<>>), JsonNumber(FALSE, 21, <<3>>),
     JsonNumber(FALSE, 21, <<0>>), JsonNumber(FALSE, 21, <<3, 0>>),
     JsonNumber(FALSE, 21, <<3, 4, 5>>), JsonNumber(TRUE, 0, <<5>>)}

\* One element of the "weather" list: an object with or without "description".
WeatherEntry(has, d) == [hasDesc |-> has, desc |-> d]

\* A response body, as far as get_weather looks at it.  kind: "notjson" (no
\* JSON document), "null", "list" (a JSON list), "obj" (a JSON object).  Of an
\* object: whether it has "weather" and the list there, whether it has "main",
\* whether that has "temp", and the number there.
Body(kind, hasW, w, hasM, hasT, t) ==
    [kind |-> kind, hasWeather |-> hasW, weather |-> w, hasMain |-> hasM,
     hasTemp |-> hasT, temp |-> t]

NoTemp == JsonNumber(FALSE, 0, <<>>)
BodyOther(kind) == Body(kind, FALSE, <<>>, FALSE, FALSE, NoTemp)
ClearSky == <<WeatherEntry(TRUE, "clear sky")>>
RainThenMist == <<WeatherEntry(TRUE, "light rain"), WeatherEntry(TRUE, "mist")>>

Bodies ==
    {BodyOther(kind) : kind \in {"notjson", "null", "list"}}
    \cup {Body("obj", FALSE, <<>>, hasM, hasM, JsonNumber(FALSE, 21, <<3>>)) : hasM \in BOOLEAN}
    \cup {Body("obj", TRUE, <<>>, TRUE, TRUE, JsonNumber(FALSE, 21, <<3>>))}
    \cup {Body("obj", TRUE, ClearSky, TRUE, TRUE, t) : t \in Temps}
    \cup {Body("obj", TRUE, RainThenMist, TRUE, TRUE, JsonNumber(FALSE, 21, <<3>>))}
    \cup {Body("obj", TRUE, <<WeatherEntry(FALSE, "")>>, TRUE, TRUE, JsonNumber(FALSE, 21, <<3>>))}
    \cup {Body("obj", TRUE, ClearSky, FALSE, FALSE, NoTemp)}
    \cup {Body("obj", TRUE, ClearSky, TRUE, FALSE, NoTemp)}

NoResponse == [status |-> 0, body |-> BodyOther("notjson")]

VARIABLES
    metadata,           \* ctx.job.metadata
    pc,                 \* where entrypoint is
    connected,          \* ctx.connect() has returned
    lkapiOpen,          \* an api.LiveKitAPI() client exists and is not closed
    egressFailed,       \* the egress block ended in its except clause
    phone_number,       \* the local variable of entrypoint
    dialRequests,       \* the CreateSIPParticipantRequests sent
    dialResult,         \* how the dial ended: "none", "answered", "twirp", "other"
    shutdownCalled,     \* ctx.shutdown() was called
    sessionConstructed, \* AgentSession(...) was constructed
    sessionStarted,     \* session.start(...) has returned
    greetCount,         \* session.generate_reply(...) calls
    raised,             \* the exception that left entrypoint, "" if none
    trace,              \* the requests entrypoint has issued, in order
    apiKey,             \* os.environ.get("OPENWEATHER_API_KEY")
    w_pc,               \* where get_weather is: "idle", "awaiting", "returned", "raised"
    w_calls,            \* invocations of get_weather so far
    w_location,         \* the location argument of the current invocation
    w_requests,         \* the GET requests the current invocation has sent
    w_response,         \* the provider's response to the current invocation
    w_result,           \* the returned sentence, as its pieces
    w_exc               \* the exception that left get_weather, "" if none

jobVars == <<metadata, pc, connected, lkapiOpen, egressFailed, phone_number,
             dialRequests, dialResult, shutdownCalled, sessionConstructed,
             sessionStarted, greetCount, raised, trace>>

weatherVars == <<apiKey, w_pc, w_calls, w_location, w_requests, w_response,
                 w_result, w_exc>>

vars == <<jobVars, weatherVars>>

Init ==
    /\ metadata \in Metadatas
    /\ pc = "start"
    /\ connected = FALSE
    /\ lkapiOpen = FALSE
    /\ egressFailed = FALSE
    /\ phone_number = PyNone
    /\ dialRequests = <<>>
    /\ dialResult = "none"
    /\ shutdownCalled = FALSE
    /\ sessionConstructed = FALSE
    /\ sessionStarted = FALSE
    /\ greetCount = 0
    /\ raised = ""
    /\ trace = <<>>
    /\ apiKey \in ApiKeys
    /\ w_pc = "idle"
    /\ w_calls = 0
    /\ w_location = ""
    /\ w_requests = <<>>
    /\ w_response = NoResponse
    /\ w_result = <<>>
    /\ w_exc = ""

\* An exception leaves entrypoint: the coroutine is over.
Raise(exc) == pc' = "done" /\ raised' = exc

(***************************************************************************)
(* await ctx.connect()                                                     *)
(***************************************************************************)
Connect ==
    /\ pc = "start"
    /\ pc' = "connecting"
    /\ trace' = Append(trace, "connect")
    /\ UNCHANGED <<metadata, connected, lkapiOpen, egressFailed, phone_number,
                   dialRequests, dialResult, shutdownCalled, sessionConstructed,
                   sessionStarted, greetCount, raised>>
    /\ UNCHANGED weatherVars

\* ConnectReturn with the failure caught and logged.
ConnectReturn_Swallow ==
    /\ pc = "connecting"
    /\ \E ok \in BOOLEAN :
        /\ connected' = ok
        /\ pc' = "egress"
        /\ UNCHANGED raised
    /\ UNCHANGED <<metadata, lkapiOpen, egressFailed, phone_number, dialRequests,
                   dialResult, shutdownCalled, sessionConstructed, sessionStarted,
                   greetCount, trace>>
    /\ UNCHANGED weatherVars

ConnectReturn ==
    /\ pc = "connecting"
    /\ \E ok \in BOOLEAN :
        IF ok
        THEN connected' = TRUE /\ pc' = "egress" /\ UNCHANGED raised
        ELSE Raise("ConnectError") /\ UNCHANGED connected
    /\ UNCHANGED <<metadata, lkapiOpen, egressFailed, phone_number, dialRequests,
                   dialResult, shutdownCalled, sessionConstructed, sessionStarted,
                   greetCount, trace>>
    /\ UNCHANGED weatherVars

(***************************************************************************)
(* The egress block: try ... except Exception                              *)
(***************************************************************************)
\* EgressExcept with the exception raised again.
EgressExcept_Reraise ==
    /\ Raise("EgressError")
    /\ egressFailed' = TRUE

\* except Exception as e: print(...).  The exception is dropped and
\* entrypoint goes on with the job metadata.
EgressExcept ==
    /\ pc' = "metadata"
    /\ egressFailed' = TRUE
    /\ UNCHANGED raised

\* EgressBegin with the request sent and not awaited.
EgressBegin_FireAndForget ==
    /\ pc = "egress"
    /\ \E ok \in BOOLEAN :
        IF ok
        THEN /\ lkapiOpen' = TRUE
             /\ trace' = Append(trace, "egress_start")
             /\ pc' = "metadata"
             /\ UNCHANGED <<egressFailed, raised>>
        ELSE /\ EgressExcept
             /\ UNCHANGED <<lkapiOpen, trace>>
    /\ UNCHANGED <<metadata, connected, phone_number, dialRequests, dialResult,
                   shutdownCalled, sessionConstructed, sessionStarted, greetCount>>
    /\ UNCHANGED weatherVars

\* lkapi = api.LiveKitAPI(); req = api.RoomCompositeEgressRequest(...);
\* await lkapi.egress.start_room_composite_egress(req) is issued.
\* The client's constructor raises when its configuration is missing.
EgressBegin ==
    /\ pc = "egress"
    /\ \E ok \in BOOLEAN :
        IF ok
        THEN /\ lkapiOpen' = TRUE
             /\ trace' = Append(trace, "egress_start")
             /\ pc' = "egress_wait"
             /\ UNCHANGED <<egressFailed, raised>>
        ELSE /\ EgressExcept
             /\ UNCHANGED <<lkapiOpen, trace>>
    /\ UNCHANGED <<metadata, connected, phone_number, dialRequests, dialResult,
                   shutdownCalled, sessionConstructed, sessionStarted, greetCount>>
    /\ UNCHANGED weatherVars

\* start_room_composite_egress returns or raises; on return
\* await lkapi.aclose() is issued.
EgressReturn ==
    /\ pc = "egress_wait"
    /\ \E ok \in BOOLEAN :
        IF ok
        THEN /\ trace' = Append(trace, "egress_close")
             /\ pc' = "egress_close"
             /\ UNCHANGED <<egressFailed, raised>>
        ELSE /\ EgressExcept
             /\ UNCHANGED trace
    /\ UNCHANGED <<metadata, connected, lkapiOpen, phone_number, dialRequests,
                   dialResult, shutdownCalled, sessionConstructed, sessionStarted,
                   greetCount>>
    /\ UNCHANGED weatherVars

\* aclose returns (the client is closed, the egress id is printed) or raises
\* (whether the client got closed is then not known).
EgressCloseReturn ==
    /\ pc = "egress_close"
    /\ \E ok \in BOOLEAN :
        IF ok
        THEN /\ lkapiOpen' = FALSE
             /\ pc' = "metadata"
             /\ UNCHANGED <<egressFailed, raised>>
        ELSE /\ EgressExcept
             /\ lkapiOpen' \in BOOLEAN
    /\ UNCHANGED <<metadata, connected, phone_number, dialRequests, dialResult,
                   shutdownCalled, sessionConstructed, sessionStarted, greetCount,
                   trace>>
    /\ UNCHANGED weatherVars

(***************************************************************************)
(* The job metadata                                                        *)
(***************************************************************************)
\* if ctx.job.metadata: None and "" are false.
MetadataGiven(md) == ~md.isNone /\ ~md.empty

\* json.loads(text): the document, or JSONDecodeError.
JsonLoads(md) ==
    IF md.valid THEN [exc |-> "", doc |-> md.doc]
    ELSE [exc |-> "JSONDecodeError", doc |-> JsonOther("null")]

\* metadata.get("phone_number"): of a dict the value at the key or None; any
\* other document has no attribute get.
GetPhoneNumber(doc) ==
    IF doc.k = "obj"
    THEN [exc |-> "", value |-> IF doc.hasPn THEN doc.pn ELSE PyNone]
    ELSE [exc |-> "AttributeError", value |-> PyNone]

\* except json.JSONDecodeError: the only exception the parse catches.
MetadataCaught(exc) == exc = "JSONDecodeError"

\* phone_number = None; if ctx.job.metadata: try: ... except JSONDecodeError
\* The value of phone_number, and the exception that escapes ("" if none).
ResolvePhone(md) ==
    IF ~MetadataGiven(md) THEN [exc |-> "", value |-> PyNone]
    ELSE LET loaded == JsonLoads(md)
         IN  IF loaded.exc # ""
             THEN [exc |-> IF MetadataCaught(loaded.exc) THEN "" ELSE loaded.exc,
                   value |-> PyNone]
             ELSE LET got == GetPhoneNumber(loaded.doc)
                  IN  [exc |-> IF MetadataCaught(got.exc) THEN "" ELSE got.exc,
                       value |-> got.value]

ResolveMetadata ==
    /\ pc = "metadata"
    /\ LET r == ResolvePhone(metadata)
       IN  /\ phone_number' = r.value
           /\ IF r.exc = "" THEN pc' = "branch" /\ UNCHANGED raised
              ELSE Raise(r.exc)
    /\ UNCHANGED <<metadata, connected, lkapiOpen, egressFailed, dialRequests,
                   dialResult, shutdownCalled, sessionConstructed, sessionStarted,
                   greetCount, trace>>
    /\ UNCHANGED weatherVars

(***************************************************************************)
(* The outbound call                                                       *)
(***************************************************************************)
\* sip_trunk_id
SipTrunkId == "ST_p7QcFHJKXXUM"

\* SipRequest with the room as the participant's identity.
SipRequest_RoomIdentity(room, pn) ==
    [room_name |-> room, sip_trunk_id |-> SipTrunkId, sip_call_to |-> pn.s,
     participant_identity |-> room, wait_until_answered |-> TRUE]

\* api.CreateSIPParticipantRequest(...)
SipRequest(room, pn) ==
    [room_name |-> room, sip_trunk_id |-> SipTrunkId, sip_call_to |-> pn.s,
     participant_identity |-> pn.s, wait_until_answered |-> TRUE]

\* DialWanted as "if phone_number != '':", which None passes.
DialWanted_NotEmptyStr(pn) == pn # PyStr("")

\* if phone_number:
DialWanted(pn) == Truthy(pn)

\* await ctx.api.sip.create_sip_participant(...) is issued.
StartDial ==
    /\ pc = "branch"
    /\ DialWanted(phone_number)
    /\ dialRequests' = Append(dialRequests, SipRequest(RoomName, phone_number))
    /\ trace' = Append(trace, "dial")
    /\ pc' = "dialing"
    /\ UNCHANGED <<metadata, connected, lkapiOpen, egressFailed, phone_number,
                   dialResult, shutdownCalled, sessionConstructed, sessionStarted,
                   greetCount, raised>>
    /\ UNCHANGED weatherVars

SkipDial ==
    /\ pc = "branch"
    /\ ~DialWanted(phone_number)
    /\ pc' = "session"
    /\ UNCHANGED <<metadata, connected, lkapiOpen, egressFailed, phone_number,
                   dialRequests, dialResult, shutdownCalled, sessionConstructed,
                   sessionStarted, greetCount, raised, trace>>
    /\ UNCHANGED weatherVars

\* OnTwirpError with the dial tried again.
OnTwirpError_Retry == pc' = "branch"

\* OnTwirpError without the shutdown and the return.
OnTwirpError_FallThrough == pc' = "session"

\* except api.TwirpError as e: print(...); await ctx.shutdown(); return
OnTwirpError == pc' = "shutdown"

\* The call is answered, or the request raises: api.TwirpError (the server
\* refused or the call failed), or another exception (the transport failed),
\* which no except clause of entrypoint catches.
DialReturn ==
    /\ pc = "dialing"
    /\ \E outcome \in {"answered", "twirp", "other"} :
        /\ dialResult' = outcome
        /\ CASE outcome = "answered" -> pc' = "session" /\ UNCHANGED raised
             [] outcome = "twirp" -> OnTwirpError /\ UNCHANGED raised
             [] outcome = "other" -> Raise("DialTransportError")
    /\ UNCHANGED <<metadata, connected, lkapiOpen, egressFailed, phone_number,
                   dialRequests, shutdownCalled, sessionConstructed, sessionStarted,
                   greetCount, trace>>
    /\ UNCHANGED weatherVars

\* await ctx.shutdown(); return
Shutdown ==
    /\ pc = "shutdown"
    /\ shutdownCalled' = TRUE
    /\ trace' = Append(trace, "shutdown")
    /\ pc' = "done"
    /\ UNCHANGED <<metadata, connected, lkapiOpen, egressFailed, phone_number,
                   dialRequests, dialResult, sessionConstructed, sessionStarted,
                   greetCount, raised>>
    /\ UNCHANGED weatherVars

(***************************************************************************)
(* The agent session                                                       *)
(***************************************************************************)
\* session = AgentSession(...); await session.start(...) is issued.  The
\* plugins' constructors raise when their configuration is missing.
ConstructSession ==
    /\ pc = "session"
    /\ \E ok \in BOOLEAN :
        IF ok
        THEN /\ sessionConstructed' = TRUE
             /\ trace' = trace \o <<"session_new", "session_start">>
             /\ pc' = "session_starting"
             /\ UNCHANGED raised
        ELSE /\ Raise("SessionInitError")
             /\ UNCHANGED <<sessionConstructed, trace>>
    /\ UNCHANGED <<metadata, connected, lkapiOpen, egressFailed, phone_number,
                   dialRequests, dialResult, shutdownCalled, sessionStarted,
                   greetCount>>
    /\ UNCHANGED weatherVars

\* GreetWanted as "if phone_number is None:".
GreetWanted_IsNone(pn) == pn.isNone

\* GreetWanted with the test dropped.
GreetWanted_Always(pn) == TRUE

\* if not phone_number:
GreetWanted(pn) == ~Truthy(pn)

\* session.start returns or raises; on return, for a job without a phone
\* number, await session.generate_reply(...) is issued.
SessionStartReturn ==
    /\ pc = "session_starting"
    /\ \E ok \in BOOLEAN :
        IF ok
        THEN /\ sessionStarted' = TRUE
             /\ IF GreetWanted(phone_number)
                THEN /\ greetCount' = greetCount + 1
                     /\ trace' = Append(trace, "greet")
                     /\ pc' = "greeting"
                ELSE /\ pc' = "done"
                     /\ UNCHANGED <<greetCount, trace>>
             /\ UNCHANGED raised
        ELSE /\ Raise("SessionStartError")
             /\ UNCHANGED <<sessionStarted, greetCount, trace>>
    /\ UNCHANGED <<metadata, connected, lkapiOpen, egressFailed, phone_number,
                   dialRequests, dialResult, shutdownCalled, sessionConstructed>>
    /\ UNCHANGED weatherVars

\* generate_reply returns or raises; entrypoint ends.
GreetReturn ==
    /\ pc = "greeting"
    /\ \E ok \in BOOLEAN :
        IF ok THEN pc' = "done" /\ UNCHANGED raised
        ELSE Raise("GreetError")
    /\ UNCHANGED <<metadata, connected, lkapiOpen, egressFailed, phone_number,
                   dialRequests, dialResult, shutdownCalled, sessionConstructed,
                   sessionStarted, greetCount, trace>>
    /\ UNCHANGED weatherVars

(***************************************************************************)
(* Assistant.get_weather                                                   *)
(***************************************************************************)
DigitChars == <<"0", "1", "2", "3", "4", "5", "6", "7", "8", "9">>

\* str(n) of a natural number, as its characters.
RECURSIVE Digits(_)
Digits(n) ==
    IF n < 10 THEN <<DigitChars[n + 1]>>
    ELSE Digits(n \div 10) \o <<DigitChars[(n % 10) + 1]>>

\* The digits after the point without trailing zeros.
RECURSIVE StripZeros(_)
StripZeros(f) ==
    IF f # <<>> /\ f[Len(f)] = 0 THEN StripZeros(SubSeq(f, 1, Len(f) - 1)) ELSE f

\* response.json() of a JSON number: an int when written without a point,
\* else a float, which keeps no trailing zeros (and has at least one digit
\* after the point when printed).
PyNumber(j) ==
    IF j.frac = <<>> THEN [isInt |-> TRUE, neg |-> j.neg, whole |-> j.whole, frac |-> <<>>]
    ELSE [isInt |-> FALSE, neg |-> j.neg, whole |-> j.whole,
          frac |-> IF StripZeros(j.frac) = <<>> THEN <<0>> ELSE StripZeros(j.frac)]

\* FormatNumber as f"{temp:.1f}": always one digit after the point.
FormatNumber_OneDecimal(x) ==
    (IF x.neg THEN <<"-">> ELSE <<>>)
        \o Digits(x.whole)
        \o <<".", IF x.isInt THEN "0" ELSE DigitChars[x.frac[1] + 1]>>

\* f"{temp}": str() of an int or a float, as its characters.
FormatNumber(x) ==
    (IF x.neg THEN <<"-">> ELSE <<>>)
        \o Digits(x.whole)
        \o (IF x.isInt THEN <<>>
            ELSE <<".">> \o [i \in 1..Len(x.frac) |-> DigitChars[x.frac[i] + 1]])

KeyNotSetSentence == <<"OpenWeather API key is not set.">>
NoDataSentence == <<"Sorry, I couldn't find any weather data for that location.">>
StatusSentence(status) ==
    <<"Sorry, I couldn't get the weather. Status code: ">> \o Digits(status)
WeatherSentence(location, description, temp) ==
    <<"The weather in ", location, " is ", description, " with a temperature of ">>
        \o FormatNumber(temp) \o <<"°C.">>

\* The status that get_weather takes as success.
HttpOk == 200

\* KeyMissing as "if api_key is None:".
KeyMissing_OnlyNone(key) == key.isNone

\* if not api_key: None and "" are false.
KeyMissing(key) == ~Truthy(key)

\* The URL of the request: the location and the key are put into the query
\* as they are, the units are metric.
WeatherUrl(location, key) ==
    [host |-> "api.openweathermap.org", path |-> "/data/2.5/weather",
     q |-> location, appid |-> key.s, units |-> "metric"]

\* if response.status != 200:
StatusRejected(status) == status # HttpOk

\* if "weather" not in data or not data["weather"]: of a list, "weather" is
\* not among its elements; of None, the test raises TypeError.
Returned(text) == [exc |-> "", text |-> text]
Thrown(exc) == [exc |-> exc, text |-> <<>>]

\* The lines after the response has arrived: the sentence returned or the
\* exception raised.
Answer(location, status, body) ==
    IF StatusRejected(status) THEN Returned(StatusSentence(status))
    ELSE CASE body.kind = "notjson" -> Thrown("ContentTypeError")
           [] body.kind = "null" -> Thrown("TypeError")
           [] body.kind = "list" -> Returned(NoDataSentence)
           [] OTHER ->
                IF ~body.hasWeather \/ body.weather = <<>>
                THEN Returned(NoDataSentence)
                ELSE IF ~body.weather[1].hasDesc \/ ~body.hasMain \/ ~body.hasTemp
                     THEN Thrown("KeyError")
                     ELSE Returned(WeatherSentence(location, body.weather[1].desc,
                                                   PyNumber(body.temp)))

\* The bound on the invocations of get_weather in one run.
MaxInvocations == 2

\* The session calls the tool: without a key the fixed sentence is returned,
\* with a key the GET request is sent.
GetWeatherCall ==
    /\ sessionStarted
    /\ w_pc \in {"idle", "returned", "raised"}
    /\ w_calls < MaxInvocations
    /\ w_calls' = w_calls + 1
    /\ \E location \in Locations :
        /\ w_location' = location
        /\ IF KeyMissing(apiKey)
           THEN /\ w_requests' = <<>>
                /\ w_result' = KeyNotSetSentence
                /\ w_pc' = "returned"
           ELSE /\ w_requests' = <<WeatherUrl(location, apiKey)>>
                /\ w_result' = <<>>
                /\ w_pc' = "awaiting"
    /\ w_response' = NoResponse
    /\ w_exc' = ""
    /\ UNCHANGED <<apiKey, jobVars>>

\* The request fails in the transport: the exception leaves get_weather.
HttpFail ==
    /\ w_pc = "awaiting"
    /\ w_pc' = "raised"
    /\ w_exc' = "ClientError"
    /\ UNCHANGED <<apiKey, w_calls, w_location, w_requests, w_response, w_result,
                   jobVars>>

\* The response arrives.
HttpReturn ==
    /\ w_pc = "awaiting"
    /\ \E status \in Statuses, body \in Bodies :
        /\ w_response' = [status |-> status, body |-> body]
        /\ LET a == Answer(w_location, status, body)
           IN  /\ w_result' = a.text
               /\ w_exc' = a.exc
               /\ w_pc' = IF a.exc = "" THEN "returned" ELSE "raised"
    /\ UNCHANGED <<apiKey, w_calls, w_location, w_requests, jobVars>>

WeatherNext == GetWeatherCall \/ HttpFail \/ HttpReturn

JobNext ==
    \/ Connect \/ ConnectReturn
    \/ EgressBegin \/ EgressReturn \/ EgressCloseReturn
    \/ ResolveMetadata
    \/ StartDial \/ SkipDial \/ DialReturn \/ Shutdown
    \/ ConstructSession \/ SessionStartReturn \/ GreetReturn

Next == JobNext \/ WeatherNext

Spec == Init /\ [][Next]_vars

\* The event loop runs entrypoint whenever it can go on by itself, and the
\* room, the SIP service and the session answer, and closing the egress
\* client ends; nothing is assumed of the egress service, whose answer to
\* the start request may never come.
FairSpec ==
    /\ Spec
    /\ WF_vars(Connect) /\ WF_vars(ConnectReturn)
    /\ WF_vars(EgressBegin) /\ WF_vars(EgressCloseReturn)
    /\ WF_vars(ResolveMetadata)
    /\ WF_vars(StartDial) /\ WF_vars(SkipDial) /\ WF_vars(DialReturn)
    /\ WF_vars(Shutdown)
    /\ WF_vars(ConstructSession) /\ WF_vars(SessionStartReturn)
    /\ WF_vars(GreetReturn)

(***************************************************************************)
(* Properties                                                              *)
(***************************************************************************)
Count(seq, x) == Cardinality({i \in DOMAIN seq : seq[i] = x})
Has(seq, x) == \E i \in DOMAIN seq : seq[i] = x
\* Every x of seq comes after some y.
Precedes(seq, y, x) ==
    \A i \in DOMAIN seq : seq[i] = x => \E j \in 1..(i - 1) : seq[j] = y
\* No y of seq comes before an x.
NoneBefore(seq, y, x) ==
    \A i \in DOMAIN seq : seq[i] = x => \A j \in 1..(i - 1) : seq[j] # y

\* entrypoint is past the point where it decides to dial.
PastBranch ==
    pc \in {"dialing", "shutdown", "session", "session_starting", "greeting", "done"}

\* C1: a job that connected and whose metadata is a record with a phone
\* number sends the SIP dial request exactly once: once entrypoint is past
\* the dial decision there is one request, there are never two (no retry
\* after a failed dial), it comes after the connect and before the session
\* is constructed.
C1_DialExactlyOnce ==
    /\ Len(dialRequests) <= 1
    /\ Count(trace, "dial") = Len(dialRequests)
    /\ (metadata \in MdObjectPhone /\ connected /\ PastBranch) => Len(dialRequests) = 1
    /\ Has(trace, "dial") => connected /\ trace[1] = "connect"
    /\ NoneBefore(trace, "session_new", "dial")
    /\ (metadata \in MdObjectPhone) => Precedes(trace, "dial", "session_new")

C1_Witness ==
    /\ metadata \in MdObjectPhone
    /\ pc = "done"
    /\ dialResult = "answered"
    /\ sessionStarted
    /\ Len(dialRequests) = 1

\* C2: a session is constructed and started only after the connect and, for
\* a job with a phone number, after the dial was answered; while the dial is
\* pending and after it has failed there is no session and no greeting.
C2_SessionOnlyAfterAnswer ==
    /\ sessionStarted => sessionConstructed
    /\ sessionConstructed => connected
    /\ (sessionConstructed /\ metadata \in MdObjectPhone) => dialResult = "answered"
    /\ (pc = "dialing" \/ dialResult \in {"twirp", "other"}) =>
            /\ ~sessionConstructed
            /\ ~sessionStarted
            /\ greetCount = 0
            /\ ~Has(trace, "session_new")
            /\ ~Has(trace, "session_start")
            /\ ~Has(trace, "greet")

C2_Witness ==
    /\ pc = "done"
    /\ dialResult = "twirp"
    /\ shutdownCalled
    /\ ~sessionConstructed

\* The metadata of C3: absent, empty, no JSON, JSON that is no object, an
\* object without the field phone_number.
NoPhoneMetadatas == {MdNone, MdEmpty, MdBadJson, MdObjectNoField} \cup MdNonObject

\* C3: with such metadata phone_number stays None (the intent is Inbound)
\* and no SIP dial request is ever sent.
C3_NoPhoneNeverDials ==
    metadata \in NoPhoneMetadatas =>
        /\ phone_number = PyNone
        /\ dialRequests = <<>>
        /\ ~Has(trace, "dial")
        /\ pc # "dialing"
        /\ dialResult = "none"

C3_Witness ==
    /\ metadata = MdBadJson
    /\ pc = "done"
    /\ sessionStarted
    /\ dialRequests = <<>>

\* C4: when the dial has failed, whatever the reason, entrypoint has called
\* the job's shutdown by the time it ends.
C4_DialFailureShutsDown ==
    (pc = "done" /\ dialResult \in {"twirp", "other"}) => shutdownCalled

\* C5: the greeting is requested exactly once when the job has no phone
\* number and the session has started, after the start has returned; it is
\* never requested for a job with a phone number or without a started
\* session.
C5_GreetingExactlyOnce ==
    /\ greetCount = Count(trace, "greet")
    /\ greetCount <= 1
    /\ (sessionStarted /\ metadata \notin MdObjectPhone) => greetCount = 1
    /\ (metadata \in MdObjectPhone \/ ~sessionStarted) => greetCount = 0
    /\ Precedes(trace, "session_start", "greet")

C5_Witness ==
    /\ pc = "done"
    /\ raised = ""
    /\ metadata = MdObjectNoField
    /\ sessionStarted
    /\ greetCount = 1

\* trace without the requests of the egress block.
NonEgress(seq) == SelectSeq(seq, LAMBDA x : x \notin {"egress_start", "egress_close"})

\* The requests, other than the egress ones, of a finished entrypoint, from
\* the metadata and the answers of the other services alone.
ExpectedSteps ==
    IF raised = "ConnectError" \/ metadata \in MdNonObject THEN <<"connect">>
    ELSE <<"connect">>
         \o (IF metadata \in MdObjectPhone THEN <<"dial">> ELSE <<>>)
         \o (CASE dialResult = "twirp" -> <<"shutdown">>
               [] dialResult = "other" -> <<>>
               [] raised = "SessionInitError" -> <<>>
               [] raised = "SessionStartError" -> <<"session_new", "session_start">>
               [] OTHER -> <<"session_new", "session_start">>
                           \o (IF metadata \in MdObjectPhone THEN <<>> ELSE <<"greet">>))

\* C6: a failed egress step does not change the run: when entrypoint has
\* ended, the requests it made apart from the egress ones, and the exception
\* it ended with, are those the metadata and the other services' answers
\* give, whether or not the egress step failed; with a failed egress and
\* nothing else failing, a job without a phone number has a started session
\* and one greeting.
C6_EgressFailureChangesNothing ==
    /\ raised \in {"", "ConnectError", "AttributeError", "DialTransportError",
                   "SessionInitError", "SessionStartError", "GreetError"}
    /\ egressFailed => connected
    /\ pc = "done" => NonEgress(trace) = ExpectedSteps
    /\ (pc = "done" /\ egressFailed /\ raised = "" /\ metadata \notin MdObjectPhone) =>
            sessionStarted /\ greetCount = 1

C6_Witness ==
    /\ pc = "done"
    /\ egressFailed
    /\ raised = ""
    /\ metadata = MdNone
    /\ sessionStarted
    /\ greetCount = 1

\* The metadata of C7: a text that is not the expected record: no JSON, or
\* JSON that is no object.
UndecodableMetadatas == {MdBadJson} \cup MdNonObject

\* C7: with such metadata no exception of the parse leaves entrypoint,
\* phone_number is None, and the run goes on to the session and the greeting.
C7_UndecodableIsInbound ==
    metadata \in UndecodableMetadatas =>
        /\ raised \notin {"JSONDecodeError", "AttributeError"}
        /\ phone_number = PyNone
        /\ (pc = "done" /\ connected /\ raised = "") => sessionStarted /\ greetCount = 1

\* C8: no exception leaves get_weather.
C8_WeatherNeverRaises == w_pc # "raised" /\ w_exc = ""

\* The body has the weather facts the sentence needs.
HasFacts(body) ==
    /\ body.kind = "obj"
    /\ body.hasWeather
    /\ body.weather # <<>>
    /\ body.weather[1].hasDesc
    /\ body.hasMain
    /\ body.hasTemp

\* C9: with a key, when the response has arrived: a status outside 200..299
\* gives the status sentence, a 2xx response without the facts the no-data
\* sentence, a 2xx response with them the weather sentence.
C9_CaseTable ==
    (w_pc \in {"returned", "raised"} /\ w_response # NoResponse) =>
        LET status == w_response.status
            body == w_response.body
        IN  /\ w_exc = ""
            /\ w_result =
                 IF status \notin 200..299 THEN StatusSentence(status)
                 ELSE IF ~HasFacts(body) THEN NoDataSentence
                 ELSE WeatherSentence(w_location, body.weather[1].desc, PyNumber(body.temp))

\* C10: without a configured key (unset or empty) an invocation returns the
\* key-not-set sentence and sends no request; with a key it sends exactly
\* one request, for the location, in metric units.
C10_KeyGuardsRequest ==
    w_calls > 0 =>
        IF apiKey \in {PyNone, PyStr("")}
        THEN /\ w_requests = <<>>
             /\ w_pc = "returned"
             /\ w_result = KeyNotSetSentence
             /\ w_exc = ""
        ELSE /\ Len(w_requests) = 1
             /\ w_requests[1].q = w_location
             /\ w_requests[1].appid = apiKey.s
             /\ w_requests[1].units = "metric"

C10_Witness ==
    /\ apiKey = PyStr("")
    /\ w_calls >= 2
    /\ w_pc = "returned"
    /\ w_result = KeyNotSetSentence

\* C11: when session.start has failed, entrypoint has requested no
\* greeting and has called the job's shutdown by the time it ends.
C11_SessionStartFailureShutsDown ==
    (pc = "done" /\ raised = "SessionStartError") =>
        /\ greetCount = 0
        /\ ~sessionStarted
        /\ shutdownCalled

\* entrypoint is past the egress block.
PastEgress ==
    connected /\ pc \notin {"start", "connecting", "egress", "egress_wait", "egress_close"}

\* C12, as claimed: the job does not wait for the egress request: once
\* connected it gets past the egress block even if the egress service never
\* answers.
C12_EgressNotAwaited == connected ~> PastEgress

\* C12, amended: the egress request is awaited: entrypoint is past the
\* egress block only when the request it sent was answered (its close has
\* been issued, or the except clause ran); while the request is pending the
\* metadata is not resolved, nothing is dialled and no session exists.
C12_EgressAwaited ==
    /\ (PastEgress /\ Has(trace, "egress_start")) =>
            Has(trace, "egress_close") \/ egressFailed
    /\ pc = "egress_wait" =>
            /\ phone_number = PyNone
            /\ dialRequests = <<>>
            /\ ~sessionConstructed
            /\ trace = <<"connect", "egress_start">>

C12_Witness ==
    /\ pc = "session_starting"
    /\ egressFailed
    /\ Has(trace, "egress_start")
    /\ ~Has(trace, "egress_close")

\* get_weather has returned the weather sentence.
WeatherReported ==
    /\ w_pc = "returned"
    /\ w_response.status = 200
    /\ HasFacts(w_response.body)

\* The characters of the temperature in the returned weather sentence: what
\* stands between " with a temperature of " and the unit.
TempChars == SubSeq(w_result, 6, Len(w_result) - 1)

\* The place of the decimal point in chars, 0 if there is none.
PointAt(chars) ==
    IF Has(chars, ".") THEN CHOOSE i \in DOMAIN chars : chars[i] = "." ELSE 0

\* The place of the last digit of f that is not 0, 0 if there is none.
LastNonZero(f) ==
    IF \E i \in DOMAIN f : f[i] # 0
    THEN CHOOSE i \in DOMAIN f : f[i] # 0 /\ \A j \in (i + 1)..Len(f) : f[j] = 0
    ELSE 0

\* C13, as claimed: the temperature of the weather sentence has exactly one
\* digit after the decimal point.
C13_OneDecimal ==
    WeatherReported =>
        /\ PointAt(TempChars) # 0
        /\ Len(TempChars) - PointAt(TempChars) = 1

\* C13, amended: the temperature is printed as the number was decoded, with
\* no fixed number of decimals: a number written without a point is printed
\* without one; a number written with a point is printed with its decimals
\* up to the last one that is not 0, and with one 0 if there is none.
C13_TemperatureAsDecoded ==
    WeatherReported =>
        LET f == w_response.body.temp.frac
            at == PointAt(TempChars)
            n == Len(TempChars) - at
        IN  IF f = <<>> THEN at = 0
            ELSE /\ at # 0
                 /\ n = IF LastNonZero(f) = 0 THEN 1 ELSE LastNonZero(f)
                 /\ \A i \in 1..n : TempChars[at + i] = DigitChars[f[i] + 1]

C13_Witness ==
    /\ WeatherReported
    /\ w_response.body.temp = JsonNumber(FALSE, 21, <<3, 4, 5>>)
    /\ TempChars = <<"2", "1", ".", "3", "4", "5">>

\* C14: after a failed connect entrypoint is over: the connect was requested
\* once, and no egress request, dial, session or greeting follows; nothing
\* is requested of any service while the room is not connected.
C14_ConnectFailureEndsJob ==
    /\ Count(trace, "connect") <= 1
    /\ ~connected => trace \in {<<>>, <<"connect">>}
    /\ raised = "ConnectError" =>
            /\ pc = "done"
            /\ ~connected
            /\ trace = <<"connect">>
            /\ ~lkapiOpen
            /\ dialRequests = <<>>
            /\ ~sessionConstructed
            /\ ~sessionStarted
            /\ greetCount = 0

C14_Witness ==
    /\ pc = "done"
    /\ raised = "ConnectError"
    /\ metadata \in MdObjectPhone

\* The phone_number of the metadata: the value of the field of a JSON
\* object, None for anything else.
PhoneOfMetadata ==
    IF ~metadata.isNone /\ ~metadata.empty /\ metadata.valid
       /\ metadata.doc.k = "obj" /\ metadata.doc.hasPn
    THEN metadata.doc.pn
    ELSE PyNone

\* C15: once resolved, phone_number is the value of the metadata in every
\* later state, and a started session comes with exactly one of the two: one
\* answered dial, or one greeting.
C15_DialXorGreeting ==
    /\ (connected /\ (pc = "branch" \/ PastBranch)) => phone_number = PhoneOfMetadata
    /\ sessionStarted =>
            /\ Len(dialRequests) + greetCount = 1
            /\ Len(dialRequests) = 1 => dialResult = "answered"
            /\ greetCount = 1 => dialResult = "none"

C15_Witness ==
    /\ sessionStarted
    /\ phone_number = PyStr("+15550199")
    /\ Len(dialRequests) = 1
    /\ greetCount = 0

\* C16: every dial request is for the room of the job, over the fixed trunk,
\* waits for the answer, and has the phone number of the metadata as the
\* number to call and as the participant's identity.
C16_DialRequestFields ==
    \A i \in DOMAIN dialRequests :
        /\ metadata \in MdObjectPhone
        /\ dialRequests[i] =
             [room_name |-> RoomName,
              sip_trunk_id |-> "ST_p7QcFHJKXXUM",
              sip_call_to |-> metadata.doc.pn.s,
              participant_identity |-> metadata.doc.pn.s,
              wait_until_answered |-> TRUE]

C16_Witness ==
    /\ pc = "dialing"
    /\ Len(dialRequests) = 1
    /\ dialRequests[1].sip_call_to = "+15550199"
    /\ dialRequests[1].participant_identity = "+15550199"

\* C17: a phone_number that is null or "" in well-formed metadata makes the
\* job an inbound one: nothing is dialled, and the run is that of metadata
\* without the field: the session is started and the greeting requested.
C17_EmptyPhoneIsInbound ==
    metadata \in {MdObjectNull, MdObjectEmptyStr} =>
        /\ dialRequests = <<>>
        /\ dialResult = "none"
        /\ ~Has(trace, "dial")
        /\ sessionStarted => greetCount = 1
        /\ (pc = "done" /\ connected /\ raised = "") =>
                NonEgress(trace) = <<"connect", "session_new", "session_start", "greet">>

C17_Witness ==
    /\ metadata = MdObjectEmptyStr
    /\ pc = "done"
    /\ raised = ""
    /\ sessionStarted
    /\ greetCount = 1

\* C18: past the egress block no egress client is open.
C18_EgressClientClosed == PastEgress => ~lkapiOpen

====
